---- MODULE Spec2Model ----
(***************************************************************************)
(* Model of wgan.train (src/wgan/wgan.py, lines 637-733): the alternating  *)
(* critic/generator training loop with checkpoint save/resume and the      *)
(* KeyboardInterrupt handler (specification Spec), and of the pieces it    *)
(* is built from, each under a specification of its own:                   *)
(*   SpecTransform   Generator._transform, continuous slice                *)
(*   SpecOAdamInit   OAdam.__init__                                        *)
(*   SpecConfigured  Specifications.__init__ followed by train()           *)
(*   SpecOAdamStep   OAdam.step                                            *)
(*   SpecCodec       DataWrapper: __init__, preprocess, deprocess,         *)
(*                   apply_generator                                       *)
(*                                                                         *)
(* Network parameters and optimizer states are opaque to train(); each is  *)
(* modelled as a state dict that names the object it belongs to and a      *)
(* version number: an optimizer step turns version v of the parameters it  *)
(* owns into version v + 1 and advances that optimizer's own state by one  *)
(* step.                                                                   *)
(***************************************************************************)
EXTENDS Integers, Sequences, FiniteSets, TLC

(* ---- bounds of the model ---- *)
MaxCriticSteps == 5
MaxEpochs == 4
MaxEvery == 2
MaxTrainBatches == 3
MaxTestBatches == 1
MaxCpEpoch == 1
MaxCpStep == 3
MaxCont == 1
MaxVal == 2
MaxMean == 1
Grid == 2
MaxLr == 2
MaxLabel == 2
MaxRows == 2
MaxOptSteps == 2
MaxDraws == 2
MaxDecodes == 2

None == "None"
NoEpoch == -1

(* A path that names no readable checkpoint: no file, or a file whose write *)
(* was cut short.                                                           *)
NoFile == [kind |-> "absent"]
PartialFile == [kind |-> "partial"]

(* What state_dict() returns for one of the four objects. *)
StateDict(owner, version) == [of |-> owner, version |-> version]

(* The aggregate written by torch.save at lines 727-731. *)
CheckpointAggregate(e, st, g, c, og, oc) ==
    [epoch |-> e, step |-> st,
     generator_state_dict |-> g,
     critic_state_dict |-> c,
     opt_generator_state_dict |-> og,
     opt_critic_state_dict |-> oc]

(* Contents of a file at the load path, as line 727 of an earlier call     *)
(* wrote it: step - 1 batches had been processed, each had stepped one      *)
(* network and its optimizer, and at least one of them the critic (the      *)
(* epoch would not have passed line 708 otherwise).                         *)
Checkpoints ==
    UNION { { CheckpointAggregate(e, st,
                  StateDict("generator", g),
                  StateDict("critic", st - 1 - g),
                  StateDict("opt_generator", g),
                  StateDict("opt_critic", st - 1 - g)) :
              g \in 0..(st - 2) } :
            <<e, st>> \in (0..MaxCpEpoch) \X (2..MaxCpStep) }

(* specifications.settings as far as train() reads it, plus the number of   *)
(* batches the two DataLoaders of lines 663-664 yield per pass.            *)
Settings ==
    [critic_steps : 0..MaxCriticSteps,
     max_epochs : 0..MaxEpochs,
     save_every : 1..MaxEvery,
     print_every : 1..MaxEvery,
     save_checkpoint : BOOLEAN,
     load_checkpoint : {NoFile} \cup Checkpoints,
     train_batches : 0..MaxTrainBatches,
     test_batches : 0..MaxTestBatches]

VARIABLES
    s,              \* specifications.settings
    pc,             \* position of train() in its body
    exc,            \* exception propagated to the caller, or None
    start_epoch,    \* line 658 / 673
    step,           \* global step counter, line 658 / 673 / 707
    epoch,          \* loop variable of line 676
    next_epoch,     \* next value the range iterator of line 676 yields
    batch,          \* batches of train_batches consumed in this epoch
    n_batches,      \* line 678 / 700
    generator,      \* generator parameters
    critic,         \* critic parameters
    opt_generator,  \* generator optimizer state
    opt_critic,     \* critic optimizer state
    gen_requires_grad,   \* requires_grad of the generator parameters
    crit_requires_grad,  \* requires_grad of the critic parameters
    WD_test,        \* None until the test loop of an epoch has produced it
    file,           \* content of the file at s.save_checkpoint
    printed,        \* lines printed by train()
    h_generator_steps,  \* history: step values processed as generator steps
    h_critic_steps,     \* history: step values processed as critic steps
    h_epochs,       \* history: epochs whose body was entered, in order
    h_epoch_end,    \* history: the four states at the last epoch boundary
    h_saved,        \* history: epochs whose checkpoint write completed
    h_interrupt,    \* history: pc at which the interrupt arrived, or None
    cont_bounds,    \* Generator.cont_bounds: rows lower and upper
    hidden,         \* continuous slice of the argument of _transform
    transformed,    \* continuous slice of the value _transform returned
    optimizer,      \* the OAdam object, or NoOptimizer
    opt_call,       \* the call last made on OAdam, with its arguments
    opt_exc,        \* the exception that call raised, or None
    wrapper,        \* the DataWrapper object, or NoWrapper
    codec_call,     \* the call last made on the DataWrapper, with arguments
    codec_ret,      \* what that call returned, or the exception it raised
    h_decodes       \* history: number of deprocess calls made so far

train_vars == <<s, pc, exc, start_epoch, step, epoch, next_epoch, batch, n_batches,
          generator, critic, opt_generator, opt_critic,
          gen_requires_grad, crit_requires_grad, WD_test, file, printed,
          h_generator_steps, h_critic_steps, h_epochs, h_epoch_end, h_saved,
          h_interrupt>>

transform_vars == <<cont_bounds, hidden, transformed>>

(* Everything train() does not touch. *)
oadam_vars == <<optimizer, opt_call, opt_exc>>

codec_vars == <<wrapper, codec_call, codec_ret, h_decodes>>

library == <<transform_vars, oadam_vars, codec_vars>>

vars == <<train_vars, library>>

conf == <<s, library>>
nets == <<generator, critic, opt_generator, opt_critic>>
flags == <<gen_requires_grad, crit_requires_grad>>
hist == <<h_generator_steps, h_critic_steps, h_epochs, h_epoch_end, h_saved,
          h_interrupt>>

States(g, c, og, oc) ==
    [generator |-> g, critic |-> c, opt_generator |-> og, opt_critic |-> oc]

(* No generator output is being transformed. *)
TransformIdle ==
    /\ cont_bounds = [lower |-> <<>>, upper |-> <<>>]
    /\ hidden = <<>>
    /\ transformed = <<>>

NoOptimizer == [kind |-> "absent"]
NoCall == [name |-> "none"]

(* No OAdam has been constructed. *)
OAdamIdle ==
    /\ optimizer = NoOptimizer
    /\ opt_call = NoCall
    /\ opt_exc = None

NoWrapper == [kind |-> "absent"]
NoReturn == [kind |-> "none"]

(* No DataWrapper has been constructed. *)
CodecIdle ==
    /\ wrapper = NoWrapper
    /\ codec_call = NoCall
    /\ codec_ret = NoReturn
    /\ h_decodes = 0

LibraryIdle == TransformIdle /\ OAdamIdle /\ CodecIdle

(* Lines 657-664: the locals and the freshly constructed optimizers. *)
Init ==
    /\ LibraryIdle
    /\ s \in Settings
    /\ pc = "load"
    /\ exc = None
    /\ start_epoch = 0
    /\ step = 1
    /\ epoch = NoEpoch
    /\ next_epoch = NoEpoch
    /\ batch = 0
    /\ n_batches = 0
    /\ generator = StateDict("generator", 0)
    /\ critic = StateDict("critic", 0)
    /\ opt_generator = StateDict("opt_generator", 0)
    /\ opt_critic = StateDict("opt_critic", 0)
    /\ gen_requires_grad = TRUE
    /\ crit_requires_grad = TRUE
    /\ WD_test = None
    /\ file = NoFile
    /\ printed = <<>>
    /\ h_generator_steps = {}
    /\ h_critic_steps = {}
    /\ h_epochs = <<>>
    /\ h_epoch_end = States(StateDict("generator", 0), StateDict("critic", 0),
                            StateDict("opt_generator", 0),
                            StateDict("opt_critic", 0))
    /\ h_saved = {}
    /\ h_interrupt = None

(* Lines 722-724: the progress record, as far as it depends on counters. *)
ProgressLine(e, st) == [line |-> "epoch", epoch |-> e, step |-> st]

(* Line 733. *)
FinalLine == [line |-> "exited gracefully."]

(* Line 673: the counters taken from the checkpoint. *)
RestoredCounters(cp) == [start_epoch |-> cp.epoch, step |-> cp.step]

RestoredStates_swapped(cp) ==
    States(cp.critic_state_dict, cp.generator_state_dict,
           cp.opt_generator_state_dict, cp.opt_critic_state_dict)

(* Lines 669-672: which entry of the checkpoint each object is loaded from. *)
RestoredStates(cp) ==
    States(cp.generator_state_dict, cp.critic_state_dict,
           cp.opt_generator_state_dict, cp.opt_critic_state_dict)

(* Line 676: the first value of range(start_epoch, max_epochs). *)
RangeFirst(start) == start

generator_update_off_by_one(st, critic_steps) == (st + 1) % critic_steps = 0

(* Line 681. *)
generator_update(st, critic_steps) == st % critic_steps = 0

OptimizerStep_noop(state) == state

(* Lines 698 and 706: one optimizer step on the parameters it owns. *)
OptimizerStep(state) == [state EXCEPT !.version = @ + 1]

SaveDue_counts_from_one(settings, e) ==
    settings.save_checkpoint /\ (e + 1) % settings.save_every = 0

(* Line 726: the condition under which the epoch writes a checkpoint. *)
SaveDue(settings, e) == settings.save_checkpoint /\ e % settings.save_every = 0

(* Line 721. *)
PrintDue(settings, e) == e % settings.print_every = 0

(* Where a KeyboardInterrupt is caught: the try block of lines 675-731. *)
InTry == {"for_epoch", "train_loop", "step_inc", "test_loop", "diagnostics",
          "save", "saving"}

(* Lines 667-673: restore the four state dicts and the two counters; then   *)
(* line 676 builds range(start_epoch, max_epochs).                          *)
LoadCheckpoint ==
    /\ pc = "load"
    /\ s.load_checkpoint # NoFile
    /\ LET cp == s.load_checkpoint
           st == RestoredStates(cp)
           ct == RestoredCounters(cp) IN
        /\ generator' = st.generator
        /\ opt_generator' = st.opt_generator
        /\ critic' = st.critic
        /\ opt_critic' = st.opt_critic
        /\ start_epoch' = ct.start_epoch
        /\ step' = ct.step
        /\ next_epoch' = RangeFirst(ct.start_epoch)
        /\ h_epoch_end' = st
    /\ pc' = "for_epoch"
    /\ UNCHANGED <<conf, exc, epoch, batch, n_batches, flags, WD_test, file,
                   printed, h_generator_steps, h_critic_steps, h_epochs,
                   h_saved, h_interrupt>>

(* Line 667 with no load path: the locals of line 658 stand. *)
NoCheckpoint ==
    /\ pc = "load"
    /\ s.load_checkpoint = NoFile
    /\ next_epoch' = RangeFirst(start_epoch)
    /\ pc' = "for_epoch"
    /\ UNCHANGED <<conf, exc, start_epoch, step, epoch, batch, n_batches, nets,
                   flags, WD_test, file, printed, hist>>

EpochBegin_resets_step ==
    /\ pc = "for_epoch"
    /\ next_epoch < s.max_epochs
    /\ epoch' = next_epoch
    /\ next_epoch' = next_epoch + 1
    /\ batch' = 0
    /\ n_batches' = 0
    /\ step' = 1
    /\ h_epochs' = Append(h_epochs, next_epoch)
    /\ pc' = "train_loop"
    /\ UNCHANGED <<conf, exc, start_epoch, nets, flags, WD_test, file,
                   printed, h_generator_steps, h_critic_steps, h_epoch_end,
                   h_saved, h_interrupt>>

(* Lines 676-678: the range yields the next epoch; the epoch's accumulators *)
(* start at zero.                                                           *)
EpochBegin ==
    /\ pc = "for_epoch"
    /\ next_epoch < s.max_epochs
    /\ epoch' = next_epoch
    /\ next_epoch' = next_epoch + 1
    /\ batch' = 0
    /\ n_batches' = 0
    /\ h_epochs' = Append(h_epochs, next_epoch)
    /\ pc' = "train_loop"
    /\ UNCHANGED <<conf, exc, start_epoch, step, nets, flags, WD_test, file,
                   printed, h_generator_steps, h_critic_steps, h_epoch_end,
                   h_saved, h_interrupt>>

(* Line 676, range exhausted: train() leaves the try block and returns. *)
LoopExhausted ==
    /\ pc = "for_epoch"
    /\ ~(next_epoch < s.max_epochs)
    /\ pc' = "returned"
    /\ UNCHANGED <<conf, exc, start_epoch, step, epoch, next_epoch, batch,
                   n_batches, nets, flags, WD_test, file, printed, hist>>

CriticStep_trains_both ==
    /\ pc = "train_loop"
    /\ batch < s.train_batches
    /\ s.critic_steps # 0
    /\ ~generator_update(step, s.critic_steps)
    /\ crit_requires_grad' = TRUE
    /\ gen_requires_grad' = TRUE
    /\ critic' = OptimizerStep(critic)
    /\ opt_critic' = OptimizerStep(opt_critic)
    /\ generator' = OptimizerStep(generator)
    /\ opt_generator' = OptimizerStep(opt_generator)
    /\ n_batches' = n_batches + 1
    /\ h_critic_steps' = h_critic_steps \cup {step}
    /\ pc' = "step_inc"
    /\ UNCHANGED <<conf, exc, start_epoch, step, epoch, next_epoch, batch,
                   WD_test, file, printed, h_generator_steps, h_epochs,
                   h_epoch_end, h_saved, h_interrupt>>

(* Lines 679-706 on a critic batch: freeze the generator, one step of the   *)
(* critic optimizer, count the batch for WD_train.                          *)
CriticStep ==
    /\ pc = "train_loop"
    /\ batch < s.train_batches
    /\ s.critic_steps # 0
    /\ ~generator_update(step, s.critic_steps)
    /\ crit_requires_grad' = TRUE
    /\ gen_requires_grad' = FALSE
    /\ critic' = OptimizerStep(critic)
    /\ opt_critic' = OptimizerStep(opt_critic)
    /\ n_batches' = n_batches + 1
    /\ h_critic_steps' = h_critic_steps \cup {step}
    /\ pc' = "step_inc"
    /\ UNCHANGED <<conf, exc, start_epoch, step, epoch, next_epoch, batch,
                   generator, opt_generator, WD_test, file, printed,
                   h_generator_steps, h_epochs, h_epoch_end, h_saved,
                   h_interrupt>>

(* Lines 679-706 on a generator batch: freeze the critic, one step of the   *)
(* generator optimizer.                                                     *)
GeneratorStep ==
    /\ pc = "train_loop"
    /\ batch < s.train_batches
    /\ s.critic_steps # 0
    /\ generator_update(step, s.critic_steps)
    /\ crit_requires_grad' = FALSE
    /\ gen_requires_grad' = TRUE
    /\ generator' = OptimizerStep(generator)
    /\ opt_generator' = OptimizerStep(opt_generator)
    /\ h_generator_steps' = h_generator_steps \cup {step}
    /\ pc' = "step_inc"
    /\ UNCHANGED <<conf, exc, start_epoch, step, epoch, next_epoch, batch,
                   n_batches, critic, opt_critic, WD_test, file, printed,
                   h_critic_steps, h_epochs, h_epoch_end, h_saved,
                   h_interrupt>>

(* Line 681 with critic_steps = 0: the modulo raises ZeroDivisionError,     *)
(* which the handler of line 732 does not catch.                            *)
ModuloByZero ==
    /\ pc = "train_loop"
    /\ batch < s.train_batches
    /\ s.critic_steps = 0
    /\ pc' = "raised"
    /\ exc' = "ZeroDivisionError"
    /\ UNCHANGED <<conf, start_epoch, step, epoch, next_epoch, batch,
                   n_batches, nets, flags, WD_test, file, printed, hist>>

(* Line 707. *)
StepInc ==
    /\ pc = "step_inc"
    /\ step' = step + 1
    /\ batch' = batch + 1
    /\ pc' = "train_loop"
    /\ UNCHANGED <<conf, exc, start_epoch, epoch, next_epoch, n_batches, nets,
                   flags, WD_test, file, printed, hist>>

(* Line 708: WD_train /= n_batches once the batches are exhausted. *)
TrainLoopEnd ==
    /\ pc = "train_loop"
    /\ batch = s.train_batches
    /\ IF n_batches = 0
         THEN pc' = "raised" /\ exc' = "ZeroDivisionError"
         ELSE pc' = "test_loop" /\ exc' = exc
    /\ UNCHANGED <<conf, start_epoch, step, epoch, next_epoch, batch,
                   n_batches, nets, flags, WD_test, file, printed, hist>>

TestLoop_updates_critic ==
    /\ pc = "test_loop"
    /\ n_batches' = s.test_batches
    /\ IF s.test_batches = 0
         THEN pc' = "raised" /\ exc' = "ZeroDivisionError" /\ WD_test' = WD_test
              /\ UNCHANGED <<critic, opt_critic>>
         ELSE pc' = "diagnostics" /\ exc' = exc /\ WD_test' = "computed"
              /\ critic' = OptimizerStep(critic)
              /\ opt_critic' = OptimizerStep(opt_critic)
    /\ UNCHANGED <<conf, start_epoch, step, epoch, next_epoch, batch,
                   generator, opt_generator, flags, file, printed, hist>>

(* Lines 710-719: the held-out pass under torch.no_grad(). *)
TestLoop ==
    /\ pc = "test_loop"
    /\ n_batches' = s.test_batches
    /\ IF s.test_batches = 0
         THEN pc' = "raised" /\ exc' = "ZeroDivisionError" /\ WD_test' = WD_test
         ELSE pc' = "diagnostics" /\ exc' = exc /\ WD_test' = "computed"
    /\ UNCHANGED <<conf, start_epoch, step, epoch, next_epoch, batch, nets,
                   flags, file, printed, hist>>

(* Lines 721-725. *)
Diagnostics ==
    /\ pc = "diagnostics"
    /\ printed' = IF PrintDue(s, epoch)
                    THEN Append(printed, ProgressLine(epoch, step))
                    ELSE printed
    /\ pc' = "save"
    /\ UNCHANGED <<conf, exc, start_epoch, step, epoch, next_epoch, batch,
                   n_batches, nets, flags, WD_test, file, hist>>

(* Line 726 false: the epoch ends without a write. *)
SkipSave ==
    /\ pc = "save"
    /\ ~SaveDue(s, epoch)
    /\ h_epoch_end' = States(generator, critic, opt_generator, opt_critic)
    /\ pc' = "for_epoch"
    /\ UNCHANGED <<conf, exc, start_epoch, step, epoch, next_epoch, batch,
                   n_batches, nets, flags, WD_test, file, printed,
                   h_generator_steps, h_critic_steps, h_epochs, h_saved,
                   h_interrupt>>

(* Lines 726-731, first half: torch.save opens the save path for writing,   *)
(* which truncates the file that was there.                                 *)
SaveBegin ==
    /\ pc = "save"
    /\ SaveDue(s, epoch)
    /\ file' = PartialFile
    /\ pc' = "saving"
    /\ UNCHANGED <<conf, exc, start_epoch, step, epoch, next_epoch, batch,
                   n_batches, nets, flags, WD_test, printed, hist>>

(* Lines 726-731, second half: the aggregate is on disk. *)
SaveEnd ==
    /\ pc = "saving"
    /\ file' = CheckpointAggregate(epoch, step, generator, critic,
                                   opt_generator, opt_critic)
    /\ h_saved' = h_saved \cup {epoch}
    /\ h_epoch_end' = States(generator, critic, opt_generator, opt_critic)
    /\ pc' = "for_epoch"
    /\ UNCHANGED <<conf, exc, start_epoch, step, epoch, next_epoch, batch,
                   n_batches, nets, flags, WD_test, printed,
                   h_generator_steps, h_critic_steps, h_epochs, h_interrupt>>

(* A KeyboardInterrupt delivered inside the try block: control moves to the *)
(* handler of line 732.                                                     *)
Interrupt ==
    /\ pc \in InTry
    /\ h_interrupt' = pc
    /\ pc' = "except"
    /\ UNCHANGED <<conf, exc, start_epoch, step, epoch, next_epoch, batch,
                   n_batches, nets, flags, WD_test, file, printed,
                   h_generator_steps, h_critic_steps, h_epochs, h_epoch_end,
                   h_saved>>

(* A KeyboardInterrupt delivered while the checkpoint is loaded (lines      *)
(* 667-673) is outside the try block and reaches the caller.                *)
InterruptBeforeTry ==
    /\ pc = "load"
    /\ h_interrupt' = pc
    /\ pc' = "raised"
    /\ exc' = "KeyboardInterrupt"
    /\ UNCHANGED <<conf, start_epoch, step, epoch, next_epoch, batch,
                   n_batches, nets, flags, WD_test, file, printed,
                   h_generator_steps, h_critic_steps, h_epochs, h_epoch_end,
                   h_saved>>

ExceptKeyboardInterrupt_reraises ==
    /\ pc = "except"
    /\ printed' = Append(printed, FinalLine)
    /\ pc' = "raised"
    /\ exc' = "KeyboardInterrupt"
    /\ UNCHANGED <<conf, start_epoch, step, epoch, next_epoch, batch,
                   n_batches, nets, flags, WD_test, file, hist>>

(* Lines 732-733. *)
ExceptKeyboardInterrupt ==
    /\ pc = "except"
    /\ printed' = Append(printed, FinalLine)
    /\ pc' = "returned"
    /\ UNCHANGED <<conf, exc, start_epoch, step, epoch, next_epoch, batch,
                   n_batches, nets, flags, WD_test, file, hist>>

Next ==
    \/ LoadCheckpoint
    \/ NoCheckpoint
    \/ EpochBegin
    \/ LoopExhausted
    \/ CriticStep
    \/ GeneratorStep
    \/ ModuloByZero
    \/ StepInc
    \/ TrainLoopEnd
    \/ TestLoop
    \/ Diagnostics
    \/ SkipSave
    \/ SaveBegin
    \/ SaveEnd
    \/ Interrupt
    \/ InterruptBeforeTry
    \/ ExceptKeyboardInterrupt

Spec == Init /\ [][Next]_vars

(* ---- the pieces, outside a call of train() ---- *)

NoSettings == [kind |-> "absent"]

(* train() has not been called. *)
TrainNotCalled ==
    /\ s = NoSettings
    /\ pc = "not_called"
    /\ exc = None
    /\ start_epoch = 0
    /\ step = 1
    /\ epoch = NoEpoch
    /\ next_epoch = NoEpoch
    /\ batch = 0
    /\ n_batches = 0
    /\ generator = StateDict("generator", 0)
    /\ critic = StateDict("critic", 0)
    /\ opt_generator = StateDict("opt_generator", 0)
    /\ opt_critic = StateDict("opt_critic", 0)
    /\ gen_requires_grad = TRUE
    /\ crit_requires_grad = TRUE
    /\ WD_test = None
    /\ file = NoFile
    /\ printed = <<>>
    /\ h_generator_steps = {}
    /\ h_critic_steps = {}
    /\ h_epochs = <<>>
    /\ h_epoch_end = States(StateDict("generator", 0), StateDict("critic", 0),
                            StateDict("opt_generator", 0),
                            StateDict("opt_critic", 0))
    /\ h_saved = {}
    /\ h_interrupt = None

(* ---- Specifications.__init__, then train() ---- *)

(* Lines 456-490: the arguments are stored as they come (line 478); nothing *)
(* is checked and nothing is raised.  The batch counts stand for the data   *)
(* and the sizes the loaders of lines 663-664 are later built from.         *)
SpecificationsInit ==
    /\ pc = "not_called"
    /\ s' \in Settings
    /\ pc' = "load"
    /\ UNCHANGED <<library, exc, start_epoch, step, epoch, next_epoch, batch,
                   n_batches, nets, flags, WD_test, file, printed, hist>>

ConfiguredInit == TrainNotCalled /\ LibraryIdle

ConfiguredNext == SpecificationsInit \/ Next

SpecConfigured == ConfiguredInit /\ [][ConfiguredNext]_vars

(* ---- Generator._transform and the bounds it clips to ---- *)

(* Line 143-144: the sentinel of an unbounded side. *)
Unbounded == 100000000

Max(a, b) == IF a >= b THEN a ELSE b
Min(a, b) == IF a <= b THEN a ELSE b

(* A dict from some of the d continuous variables to a bound. *)
BoundDicts(d) == UNION { [D -> (-MaxVal)..MaxVal] : D \in SUBSET (1..d) }

(* Lines 143-145: the configured bound or the sentinel, then the z-scoring  *)
(* of the codec.  Values of the normalised space are held in units of       *)
(* 1/std of their variable, so that (b - mean)/std is the integer b - mean. *)
ContBounds(d, lower_bounds, upper_bounds, means) ==
    [lower |-> [i \in 1..d |->
                  (IF i \in DOMAIN lower_bounds THEN lower_bounds[i]
                                               ELSE -Unbounded) - means[i]],
     upper |-> [i \in 1..d |->
                  (IF i \in DOMAIN upper_bounds THEN upper_bounds[i]
                                               ELSE Unbounded) - means[i]]]

transform_only_lower(h, bounds) ==
    [i \in DOMAIN h |-> Max(h[i], bounds.lower[i])]

(* Lines 535-539: elementwise max with row 0, then min with row 1. *)
transform(h, bounds) ==
    [i \in DOMAIN h |-> Min(Max(h[i], bounds.lower[i]), bounds.upper[i])]

(* A generator built on a fitted codec (lines 143-145, 524). *)
TransformInit ==
    /\ TrainNotCalled
    /\ \E d \in 1..MaxCont :
         \E lo \in BoundDicts(d), up \in BoundDicts(d),
            means \in [1..d -> 0..MaxMean] :
            cont_bounds = ContBounds(d, lo, up, means)
    /\ hidden = <<>>
    /\ transformed = <<>>
    /\ OAdamIdle
    /\ CodecIdle

(* Lines 534-542 on one pre-transform row. *)
Transform ==
    /\ \E h \in [DOMAIN cont_bounds.lower -> (-MaxVal)..MaxVal] :
         /\ hidden' = h
         /\ transformed' = transform(h, cont_bounds)
    /\ UNCHANGED <<train_vars, cont_bounds, oadam_vars, codec_vars>>

TransformNext == Transform

SpecTransform == TransformInit /\ [][TransformNext]_vars

(* ---- properties ---- *)

FreshRun == s.load_checkpoint = NoFile
Processed == h_generator_steps \cup h_critic_steps
NetStates == States(generator, critic, opt_generator, opt_critic)

(* C1: on a fresh run the step counter is 1 until the first batch has been  *)
(* processed; the counter changes only by the increment that follows a      *)
(* processed batch, by exactly 1, and never at an epoch boundary; the batch *)
(* processed at counter value step updates the generator iff                *)
(* step mod critic_steps = 0 and the critic otherwise.                      *)
C1_StepCounter ==
    [][ /\ (FreshRun /\ Processed = {} => step = 1)
        /\ (pc # "load" => step' \in {step, step + 1})
        /\ (pc # "load" /\ step' # step => pc = "step_inc")
        /\ (pc = "step_inc" /\ pc' = "train_loop" => step' = step + 1)
        /\ (pc = "train_loop" /\ pc' = "step_inc" =>
              /\ (step % s.critic_steps = 0 <=> generator' # generator)
              /\ (step % s.critic_steps # 0 <=> critic' # critic)
              /\ (generator' # generator <=> critic' = critic)) ]_vars

(* A fresh run that has crossed an epoch boundary and processed both kinds  *)
(* of batch.                                                                *)
C1_Witness ==
    /\ FreshRun
    /\ epoch >= 1
    /\ step > s.train_batches + 1
    /\ h_generator_steps # {}
    /\ h_critic_steps # {}

(* C2: after the first N batches of a fresh run with critic_steps >= 1 the  *)
(* processed steps are 1..N, the generator steps among them are those       *)
(* divisible by critic_steps, N div critic_steps in number, and the other   *)
(* N - N div critic_steps are critic steps.                                 *)
C2_StepAlternation ==
    FreshRun /\ s.critic_steps >= 1 =>
        LET N == Cardinality(Processed) IN
            /\ Processed = 1..N
            /\ h_generator_steps = {x \in 1..N : x % s.critic_steps = 0}
            /\ h_critic_steps = {x \in 1..N : x % s.critic_steps # 0}
            /\ Cardinality(h_generator_steps) = N \div s.critic_steps
            /\ Cardinality(h_critic_steps) = N - (N \div s.critic_steps)

(* The scenario critic_steps = 5, ten steps over several epochs. *)
C2_Witness ==
    /\ FreshRun
    /\ s.critic_steps = 5
    /\ Processed = 1..10
    /\ h_generator_steps = {5, 10}
    /\ h_critic_steps = {1, 2, 3, 4, 6, 7, 8, 9}
    /\ epoch >= 1

(* C3: after a resume the four states and the counters are those of the     *)
(* checkpoint and the first epoch executed is the checkpoint's epoch + 1.   *)
C3_ResumeAtNextEpoch ==
    ~FreshRun /\ Len(h_epochs) >= 1 =>
        /\ start_epoch = s.load_checkpoint.epoch
        /\ h_epochs[1] = s.load_checkpoint.epoch + 1

(* The interrupt arrived after the epoch's body had been entered. *)
InterruptedMidEpoch ==
    h_interrupt \in {"train_loop", "step_inc", "test_loop", "diagnostics",
                     "save", "saving"}

(* Optimizer steps of the interrupted epoch that ran before the interrupt. *)
StepsOfInterruptedEpoch == batch + (IF h_interrupt = "step_inc" THEN 1 ELSE 0)

(* C4 as stated: after an interrupt in the middle of an epoch the four      *)
(* states are back at their values at the end of the last completed epoch   *)
(* (or the initial/restored values).                                        *)
C4_PartialWorkDiscarded ==
    pc = "returned" /\ InterruptedMidEpoch => NetStates = h_epoch_end

(* C4 amended: after an interrupt in the middle of an epoch nothing is      *)
(* rolled back; the four states are those left by every optimizer step     *)
(* that ran before the interrupt: the values at the end of the last         *)
(* completed epoch advanced by the optimizer steps of the interrupted       *)
(* epoch, each network together with its own optimizer.                     *)
C4_PartialWorkKept ==
    pc = "returned" /\ InterruptedMidEpoch =>
        LET Advance(now, before) == now.version - before.version
            g == Advance(generator, h_epoch_end.generator)
            c == Advance(critic, h_epoch_end.critic) IN
            /\ g >= 0
            /\ c >= 0
            /\ g + c = StepsOfInterruptedEpoch
            /\ Advance(opt_generator, h_epoch_end.opt_generator) = g
            /\ Advance(opt_critic, h_epoch_end.opt_critic) = c
            /\ generator.of = "generator" /\ critic.of = "critic"
            /\ opt_generator.of = "opt_generator"
            /\ opt_critic.of = "opt_critic"

(* train() has returned after an interrupt in the second batch of an epoch  *)
(* that follows a completed one.                                            *)
C4_Witness ==
    /\ pc = "returned"
    /\ h_interrupt = "step_inc"
    /\ batch = 1
    /\ Len(h_epochs) >= 2
    /\ NetStates # h_epoch_end

(* C5: an interrupt delivered anywhere in the epoch loop goes to the        *)
(* handler and not to the caller; from then on no training step and no      *)
(* checkpoint write takes place; the handler prints the final line and      *)
(* train() returns without an exception.                                    *)
C5_GracefulStop ==
    [][ /\ (h_interrupt' # h_interrupt /\ pc # "load" =>
              /\ pc' = "except"
              /\ exc' = None
              /\ UNCHANGED <<step, generator, critic, opt_generator,
                             opt_critic, file, printed>>)
        /\ (pc = "except" =>
              /\ pc' = "returned"
              /\ exc' = None
              /\ printed' = Append(printed, FinalLine)
              /\ UNCHANGED <<step, generator, critic, opt_generator,
                             opt_critic, file>>) ]_vars

(* train() has returned after an interrupt that arrived during a checkpoint *)
(* write, with the final line as its last output.                          *)
C5_Witness ==
    /\ pc = "returned"
    /\ exc = None
    /\ h_interrupt = "saving"
    /\ printed # <<>>
    /\ printed[Len(printed)] = FinalLine

(* A complete aggregate taken at the end of an epoch whose write finished. *)
CompleteCheckpoint(f) ==
    /\ f # NoFile
    /\ f # PartialFile
    /\ f.epoch \in h_saved
    /\ f.step \in 1..step

(* C6 as stated, for the states in which train() has returned: the file at  *)
(* the save path is absent or a complete checkpoint of one completed epoch. *)
C6_AtomicReplacement ==
    pc = "returned" => file = NoFile \/ CompleteCheckpoint(file)

C8_LoadRoundTrip ==
    ~FreshRun /\ pc # "load" /\ h_interrupt # "load" /\ Processed = {} =>
        CheckpointAggregate(start_epoch, step, generator, critic,
                            opt_generator, opt_critic) = s.load_checkpoint

(* A checkpoint of epoch 1 in which both networks had stepped has been     *)
(* loaded and the first epoch is about to process its first batch.          *)
C8_Witness ==
    /\ ~FreshRun
    /\ pc = "train_loop"
    /\ Processed = {}
    /\ generator.version = 1
    /\ critic.version = 1
    /\ step = 3
    /\ start_epoch = 1

(* C9: a batch updates exactly one network.  On a critic step the generator *)
(* parameters have requires_grad off, the critic optimizer steps and the    *)
(* generator parameters and generator optimizer state are unchanged; on a   *)
(* generator step the same holds with the roles exchanged.                  *)
C9_OneNetworkPerBatch ==
    [][ pc = "train_loop" /\ pc' = "step_inc" =>
          IF step % s.critic_steps = 0
            THEN /\ gen_requires_grad' /\ ~crit_requires_grad'
                 /\ generator' # generator /\ opt_generator' # opt_generator
                 /\ critic' = critic /\ opt_critic' = opt_critic
            ELSE /\ crit_requires_grad' /\ ~gen_requires_grad'
                 /\ critic' # critic /\ opt_critic' # opt_critic
                 /\ generator' = generator /\ opt_generator' = opt_generator
      ]_vars

(* A critic step has just run after at least one generator step. *)
C9_Witness ==
    /\ pc = "step_inc"
    /\ ~gen_requires_grad
    /\ crit_requires_grad
    /\ step \in h_critic_steps
    /\ h_generator_steps # {}

(* C10: the held-out evaluation leaves the generator and critic parameters, *)
(* both optimizer states and the step counter unchanged; what it produces   *)
(* is WD_test.                                                              *)
C10_EvaluationFrame ==
    [][ pc = "test_loop" =>
          /\ UNCHANGED <<generator, critic, opt_generator, opt_critic, step>>
          /\ (pc' = "diagnostics" => WD_test' = "computed") ]_vars

(* The first held-out evaluation of a run has produced WD_test after        *)
(* batches of both kinds.                                                   *)
C10_Witness ==
    /\ pc = "diagnostics"
    /\ WD_test = "computed"
    /\ Len(h_epochs) = 1
    /\ generator.version > 0
    /\ critic.version > 0
(* ---- OAdam ---- *)

(* Hyperparameters are held in units of 1/Grid: the integer n stands for    *)
(* n/Grid, so the literal 1.0 of lines 329 and 331 is Grid.                 *)
Hyperparameters ==
    [lr : (-1)..MaxLr, eps : (-1)..1,
     beta1 : (-1)..(Grid + 1), beta2 : (-1)..(Grid + 1)]

OAdamRejects_beta_one(h) ==
    \/ ~(0 <= h.lr)
    \/ ~(0 <= h.eps)
    \/ ~(0 <= h.beta1 /\ h.beta1 <= Grid)
    \/ ~(0 <= h.beta2 /\ h.beta2 < Grid)

(* Lines 325-332: the four range checks. *)
OAdamRejects(h) ==
    \/ ~(0 <= h.lr)
    \/ ~(0 <= h.eps)
    \/ ~(0 <= h.beta1 /\ h.beta1 < Grid)
    \/ ~(0 <= h.beta2 /\ h.beta2 < Grid)

(* Lines 333-335: the defaults of the single parameter group; no parameter  *)
(* has state yet.                                                           *)
NewOAdam(h) == [defaults |-> h, params |-> <<>>]

(* Lines 323-335. *)
OAdamInit ==
    /\ \E h \in Hyperparameters :
         /\ opt_call' = [name |-> "__init__", args |-> h]
         /\ IF OAdamRejects(h)
              THEN /\ opt_exc' = "ValueError"
                   /\ optimizer' = NoOptimizer
              ELSE /\ opt_exc' = None
                   /\ optimizer' = NewOAdam(h)
    /\ UNCHANGED <<train_vars, transform_vars, codec_vars>>

OAdamInitInit == TrainNotCalled /\ TransformIdle /\ OAdamIdle /\ CodecIdle

OAdamInitNext == OAdamInit

SpecOAdamInit == OAdamInitInit /\ [][OAdamInitNext]_vars

(* ---- OAdam.step ---- *)

(* Parameters, gradients and moments are scalars held as exact fractions    *)
(* <<numerator, denominator>> in lowest terms with a positive denominator.  *)
Abs(n) == IF n < 0 THEN -n ELSE n

RECURSIVE GCD(_, _)
GCD(a, b) == IF b = 0 THEN a ELSE GCD(b, a % b)

Frac(n, d) ==
    LET sgn == IF d < 0 THEN -1 ELSE 1
        g == GCD(Abs(n), Abs(d))
    IN <<(sgn * n) \div g, (sgn * d) \div g>>

Zero == <<0, 1>>
One == <<1, 1>>
Add(a, b) == Frac(a[1] * b[2] + b[1] * a[2], a[2] * b[2])
Neg(a) == <<-a[1], a[2]>>
Sub(a, b) == Add(a, Neg(b))
Mul(a, b) == Frac(a[1] * b[1], a[2] * b[2])
Div(a, b) == Frac(a[1] * b[2], a[2] * b[1])

RECURSIVE Pow(_, _)
Pow(a, n) == IF n = 0 THEN One ELSE Mul(a, Pow(a, n - 1))

(* The square root of a fraction whose terms are perfect squares, which is  *)
(* every fraction step() takes a root of when beta2 = 0.                    *)
Root(n) == CHOOSE k \in 0..n : k * k = n
Sqrt(a) == <<Root(a[1]), Root(a[2])>>

(* p.grad of a parameter before step(): None, a sparse tensor, or a dense   *)
(* value.                                                                   *)
DenseGradients == {-1, 1}

Gradients ==
    {[kind |-> "none", value |-> Zero], [kind |-> "sparse", value |-> Zero]}
        \cup {[kind |-> "dense", value |-> <<g, 1>>] : g \in DenseGradients}

(* Lines 358-366: the state a parameter gets at its first update. *)
NewState == [step |-> 0, exp_avg |-> Zero, exp_avg_sq |-> Zero]

(* An OAdam over two parameters in one group, with the defaults             *)
(* weight_decay = 0 and amsgrad = False.                                    *)
NewParams == [i \in 1..2 |-> [data |-> Zero, state |-> NewState]]

(* Lines 372-375. *)
StepSize(h, count) ==
    LET bias_correction1 == Sub(One, Pow(<<h.beta1, Grid>>, count))
        bias_correction2 == Sub(One, Pow(<<h.beta2, Grid>>, count))
    IN Div(Mul(<<h.lr, Grid>>, Sqrt(bias_correction2)), bias_correction1)

(* Lines 379-380. *)
ExpAvg(h, state, grad) ==
    Add(Mul(<<h.beta1, Grid>>, state.exp_avg),
        Mul(Sub(One, <<h.beta1, Grid>>), grad))

ExpAvgSq(h, state, grad) ==
    Add(Mul(<<h.beta2, Grid>>, state.exp_avg_sq),
        Mul(Sub(One, <<h.beta2, Grid>>), Mul(grad, grad)))

(* addcdiv_(value, m, sqrt(v) + eps): the amount added to p.data. *)
AddCDiv(h, value, m, v) ==
    Div(Mul(value, m), Add(Sqrt(v), <<h.eps, Grid>>))

OAdamUpdate_subtracts_first(h, p, grad) ==
    LET count == p.state.step + 1
        step_size == StepSize(h, count)
        exp_avg == ExpAvg(h, p.state, grad)
        exp_avg_sq == ExpAvgSq(h, p.state, grad)
        optimistic == Sub(p.data, AddCDiv(h, step_size, p.state.exp_avg,
                                          p.state.exp_avg_sq))
    IN [data |-> Add(optimistic,
                     AddCDiv(h, Mul(<<-2, 1>>, step_size), exp_avg,
                             exp_avg_sq)),
        state |-> [step |-> count, exp_avg |-> exp_avg,
                   exp_avg_sq |-> exp_avg_sq]]

(* Lines 356-392 for one parameter with a dense gradient. *)
OAdamUpdate(h, p, grad) ==
    LET count == p.state.step + 1
        step_size == StepSize(h, count)
        exp_avg == ExpAvg(h, p.state, grad)
        exp_avg_sq == ExpAvgSq(h, p.state, grad)
        optimistic == Add(p.data, AddCDiv(h, step_size, p.state.exp_avg,
                                          p.state.exp_avg_sq))
    IN [data |-> Add(optimistic,
                     AddCDiv(h, Mul(<<-2, 1>>, step_size), exp_avg,
                             exp_avg_sq)),
        state |-> [step |-> count, exp_avg |-> exp_avg,
                   exp_avg_sq |-> exp_avg_sq]]

(* Lines 352-392: the loop over the parameters from the i-th on.  A         *)
(* parameter without gradient is skipped, a sparse gradient raises and      *)
(* ends the loop, a dense gradient updates the parameter in place.          *)
RECURSIVE OAdam_step(_, _, _, _)
OAdam_step(h, params, grads, i) ==
    IF i > Len(params)
      THEN [params |-> params, exc |-> None]
    ELSE IF grads[i].kind = "none"
      THEN OAdam_step(h, params, grads, i + 1)
    ELSE IF grads[i].kind = "sparse"
      THEN [params |-> params, exc |-> "RuntimeError"]
    ELSE OAdam_step(h,
             [params EXCEPT ![i] = OAdamUpdate(h, params[i], grads[i].value)],
             grads, i + 1)

OAdamStep_rolls_back ==
    /\ optimizer # NoOptimizer
    /\ \A i \in DOMAIN optimizer.params :
          optimizer.params[i].state.step < MaxOptSteps
    /\ \E grads \in [DOMAIN optimizer.params -> Gradients] :
         /\ opt_call' = [name |-> "step", grads |-> grads,
                         before |-> optimizer.params]
         /\ opt_exc' = OAdam_step(optimizer.defaults, optimizer.params,
                                  grads, 1).exc
         /\ optimizer' =
              IF opt_exc' = "RuntimeError" THEN optimizer
              ELSE [optimizer EXCEPT !.params =
                       OAdam_step(optimizer.defaults, optimizer.params,
                                  grads, 1).params]
    /\ UNCHANGED <<train_vars, transform_vars, codec_vars>>

(* Lines 342-393, with the gradients backward() has left. *)
OAdamStep ==
    /\ optimizer # NoOptimizer
    /\ \A i \in DOMAIN optimizer.params :
          optimizer.params[i].state.step < MaxOptSteps
    /\ \E grads \in [DOMAIN optimizer.params -> Gradients] :
         /\ opt_call' = [name |-> "step", grads |-> grads,
                         before |-> optimizer.params]
         /\ optimizer' =
              [optimizer EXCEPT !.params =
                   OAdam_step(optimizer.defaults, optimizer.params, grads, 1).params]
         /\ opt_exc' = OAdam_step(optimizer.defaults, optimizer.params, grads, 1).exc
    /\ UNCHANGED <<train_vars, transform_vars, codec_vars>>

(* An OAdam that __init__ accepted, with beta2 = 0 and eps > 0: every       *)
(* second moment is then the square of a gradient and every division is     *)
(* by a positive number.                                                    *)
OAdamStepInit ==
    /\ TrainNotCalled
    /\ TransformIdle
    /\ CodecIdle
    /\ \E h \in Hyperparameters :
         /\ ~OAdamRejects(h)
         /\ h.beta2 = 0
         /\ h.eps > 0
         /\ optimizer = [NewOAdam(h) EXCEPT !.params = NewParams]
    /\ opt_call = NoCall
    /\ opt_exc = None

OAdamStepNext == OAdamStep

SpecOAdamStep == OAdamStepInit /\ [][OAdamStepNext]_vars

(* ---- DataWrapper ---- *)

(* A categorical label is a natural number; the order of the naturals       *)
(* stands for the sort order of the labels.  Values of continuous and       *)
(* context columns are not modelled, only the columns.                      *)

Range(f) == {f[i] : i \in DOMAIN f}

RECURSIVE Sum(_)
Sum(q) == IF q = <<>> THEN 0 ELSE Head(q) + Sum(Tail(q))

RECURSIVE Flatten(_)
Flatten(qs) == IF qs = <<>> THEN <<>> ELSE Head(qs) \o Flatten(Tail(qs))

(* The elements of a set of naturals in ascending order. *)
Sorted(S) ==
    CHOOSE q \in [1..Cardinality(S) -> S] :
        \A i, j \in 1..Cardinality(S) : i < j => q[i] < q[j]

(* Position of e in the sequence q. *)
IndexOf(q, e) == CHOOSE i \in DOMAIN q : q[i] = e

(* The schemas followed: one categorical variable, with or without a       *)
(* continuous variable and a context variable.                              *)
Schemas ==
    [continuous : {<<>>, <<"x1">>}, categorical : {<<"c1">>},
     context : {<<>>, <<"k1">>}]

(* Tables of 1..MaxRows rows giving a label for each of the columns cols. *)
Tables(cols) ==
    UNION { [1..n -> [Range(cols) -> 1..MaxLabel]] : n \in 1..MaxRows }

(* df[v].unique() *)
Unique(df, v) == {df[r][v] : r \in DOMAIN df}

(* pd.get_dummies(column): one column per value present, in sorted order;   *)
(* row r has its 1 in the column of its own value.                          *)
GetDummies(df, v) ==
    LET columns == Sorted(Unique(df, v)) IN
        [r \in DOMAIN df |->
            [j \in DOMAIN columns |-> IF df[r][v] = columns[j] THEN 1 ELSE 0]]

(* Lines 100-146 for categorical columns that do not hold floats. *)
NewDataWrapper(schema, df) ==
    LET cats == schema.categorical
        feature_labels(v) == Sorted(Unique(df, v))
        w2i == [v \in Range(cats) |->
                   [label \in Unique(df, v) |->
                       IndexOf(feature_labels(v), label) - 1]]
        i2w == [v \in Range(cats) |->
                   [idx \in 0..(Cardinality(Unique(df, v)) - 1) |->
                       feature_labels(v)[idx + 1]]]
    IN [variables |-> schema,
        cat_dims |-> [i \in DOMAIN cats |-> Cardinality(Unique(df, cats[i]))],
        words_to_int |-> w2i,
        int_to_words |-> i2w,
        cat_labels |-> [i \in DOMAIN cats |->
                          [var |-> cats[i],
                           codes |-> Sorted({w2i[cats[i]][label] :
                                               label \in Unique(df, cats[i])})]],
        df0 |-> [columns |-> schema.continuous \o schema.categorical,
                 categorical |-> schema.categorical]]

(* Lines 98-146. *)
DataWrapperInit ==
    /\ wrapper = NoWrapper
    /\ \E schema \in Schemas :
         \E df \in Tables(schema.categorical) :
            /\ wrapper' = NewDataWrapper(schema, df)
            /\ codec_call' = [name |-> "__init__", schema |-> schema]
    /\ codec_ret' = NoReturn
    /\ UNCHANGED <<train_vars, transform_vars, oadam_vars, h_decodes>>

(* Lines 164-182 on a table that has the columns of the fitted schema: the  *)
(* one-hot blocks come from get_dummies of the table itself.  A name in     *)
(* variables["categorical"] that is no column of the table is a KeyError.   *)
preprocess(w, df) ==
    LET cats == w.variables.categorical IN
    IF \E i \in DOMAIN cats : cats[i] \notin DOMAIN df[1]
      THEN [kind |-> "raised", exc |-> "KeyError"]
      ELSE [kind |-> "tensors",
            x |-> [continuous |-> Len(w.variables.continuous),
                   categorical |->
                      [r \in DOMAIN df |->
                          Flatten([i \in DOMAIN cats |->
                                      GetDummies(df, cats[i])[r]])]],
            context |-> Len(w.variables.context)]

(* Tables conforming to the fitted schema: every label is in the            *)
(* vocabulary of its variable.                                              *)
ConformingTables(w) ==
    { df \in Tables(w.df0.categorical) :
        \A r \in DOMAIN df : \A v \in DOMAIN df[r] :
            df[r][v] \in DOMAIN w.words_to_int[v] }

(* Lines 148-182. *)
Preprocess ==
    /\ wrapper # NoWrapper
    /\ \E df \in ConformingTables(wrapper) :
         /\ codec_call' = [name |-> "preprocess", df |-> df]
         /\ codec_ret' = preprocess(wrapper, df)
    /\ UNCHANGED <<train_vars, transform_vars, oadam_vars, wrapper, h_decodes>>

(* A tensor x is modelled by the number of its continuous columns and, per  *)
(* row, its categorical columns, each 1 (positive probability) or 0.        *)
(* The generator's output has the fitted width and, after the softmax of    *)
(* Generator._transform, only positive probabilities.                       *)
Generated(w, n_rows) ==
    [continuous |-> Len(w.variables.continuous),
     categorical |-> [r \in 1..n_rows |-> [j \in 1..Sum(w.cat_dims) |-> 1]]]

(* Block i of categorical.split(self.cat_dims, -1), for one row. *)
Split(row, dims, i) ==
    SubSeq(row, Sum(SubSeq(dims, 1, i - 1)) + 1, Sum(SubSeq(dims, 1, i)))

(* torch.multinomial(p, n) for one row p: n distinct column indices, from   *)
(* 0, of positive probability; there is none when fewer than n are          *)
(* positive, and the call raises.                                           *)
Multinomial(p, n) ==
    { q \in [1..n -> 0..(Len(p) - 1)] :
        /\ \A j \in 1..n : p[q[j] + 1] > 0
        /\ \A i, j \in 1..n : i # j => q[i] # q[j] }

(* Column j of l[1][torch.multinomial(p, n)] for one row: the code at the  *)
(* index drawn.  Where the probabilities leave one draw only (a one-hot     *)
(* row, one draw) that code is known; a code drawn at random is not         *)
(* followed and stands as Sampled.                                          *)
Sampled == -1

SampledLabel == 0

Drawn(p, n, j, codes) ==
    IF Cardinality(Multinomial(p, n)) = 1
      THEN codes[(CHOOSE q \in Multinomial(p, n) : TRUE)[j] + 1]
      ELSE Sampled

(* Lines 226-229: every name of the list followed by its fillers. *)
Fillers(var, n) == [j \in 1..(n - 1) |-> var \o ToString(j)]

NewVariablesCategorical(list, n) ==
    Flatten([i \in DOMAIN list |-> <<list[i]>> \o Fillers(list[i], n)])

(* Lines 231-234: a filler gets the table of the variable it was made from  *)
(* (of the last such variable in the list, which assigns last).             *)
WithFillers(table, list, n) ==
    LET made_from(name) ==
            { i \in DOMAIN list : /\ list[i] \in DOMAIN table
                                  /\ name \in Range(Fillers(list[i], n)) }
        last(S) == CHOOSE i \in S : \A j \in S : j <= i
    IN [name \in DOMAIN table \cup
                 { nm \in UNION { Range(Fillers(list[i], n)) :
                                     i \in DOMAIN list } :
                     made_from(nm) # {} } |->
           IF made_from(name) # {} THEN table[list[last(made_from(name))]]
           ELSE table[name]]

(* Keys of dict(zip(names, columns)) in insertion order. *)
RECURSIVE Keys(_, _)
Keys(names, seen) ==
    IF names = <<>> THEN <<>>
    ELSE IF Head(names) \in seen THEN Keys(Tail(names), seen)
    ELSE <<Head(names)>> \o Keys(Tail(names), seen \cup {Head(names)})

(* pd.DataFrame(dict(zip(names, columns))): zip stops at the shorter of the *)
(* two, and of two columns zipped to one name the later one stays.          *)
DataFrame(names, columns) ==
    LET m == Min(Len(names), Len(columns))
        zipped == SubSeq(names, 1, m)
    IN [columns |-> Keys(zipped, {}),
        data |-> [name \in Range(zipped) |->
                    columns[CHOOSE i \in 1..m :
                               /\ zipped[i] = name
                               /\ \A j \in 1..m : zipped[j] = name => j <= i]]]

(* Series.map(int_to_words[...]) on a column of codes; a column that holds  *)
(* no codes is mapped all the same and loses its values.                    *)
Map(column, table) ==
    IF column.kind = "codes"
      THEN [kind |-> "labels",
            values |-> [r \in DOMAIN column.values |->
                          IF column.values[r] = Sampled THEN SampledLabel
                          ELSE table[column.values[r]]]]
      ELSE [kind |-> "remapped", values |-> <<>>]

(* Lines 199-248 when lines 199 and 216 do not raise.  The result is the    *)
(* DataWrapper after the call and what the call returned or raised.         *)
deprocess(w, x, n_features) ==
    LET list == w.variables.categorical
        new_list == NewVariablesCategorical(list, n_features)
        w_after == [w EXCEPT !.variables.categorical = new_list,
                             !.words_to_int =
                                 WithFillers(w.words_to_int, list, n_features),
                             !.int_to_words =
                                 WithFillers(w.int_to_words, list, n_features)]
        continuous == [j \in 1..x.continuous |->
                          [kind |-> "continuous", values |-> <<>>]]
        context == [j \in 1..Len(w.variables.context) |->
                       [kind |-> "context", values |-> <<>>]]
        categorical ==
            Flatten([i \in DOMAIN w.cat_labels |->
                [j \in 1..n_features |->
                    [kind |-> "codes",
                     values |-> [r \in DOMAIN x.categorical |->
                         Drawn(Split(x.categorical[r], w.cat_dims, i),
                               n_features, j, w.cat_labels[i].codes)]]]])
        df == DataFrame(w.variables.continuous \o new_list
                            \o w.variables.context,
                        continuous \o categorical \o context)
    IN IF \E cate_word \in DOMAIN w_after.words_to_int :
              cate_word \notin DOMAIN df.data
         THEN [w |-> w_after, ret |-> [kind |-> "raised", exc |-> "KeyError"]]
         ELSE [w |-> w_after,
               ret |-> [kind |-> "table",
                        columns |-> df.columns,
                        data |-> [name \in DOMAIN df.data |->
                            IF name \in DOMAIN w_after.words_to_int
                              THEN Map(df.data[name],
                                       w_after.int_to_words[name])
                              ELSE df.data[name]]]]

(* Line 199 raises when x has not the fitted width, line 216 when a block   *)
(* has fewer than n_features positive entries; both before the DataWrapper  *)
(* is changed.                                                              *)
DeprocessOutcome(w, x, n_features) ==
    IF \E r \in DOMAIN x.categorical :
          Len(x.categorical[r]) # Sum(w.cat_dims)
      THEN [w |-> w, ret |-> [kind |-> "raised", exc |-> "RuntimeError"]]
    ELSE IF \E r \in DOMAIN x.categorical : \E i \in DOMAIN w.cat_dims :
               Multinomial(Split(x.categorical[r], w.cat_dims, i),
                           n_features) = {}
      THEN [w |-> w, ret |-> [kind |-> "raised", exc |-> "RuntimeError"]]
    ELSE deprocess(w, x, n_features)

(* Lines 184-248, on the x the last preprocess returned or on the output    *)
(* of a generator.                                                          *)
Deprocess ==
    /\ wrapper # NoWrapper
    /\ h_decodes < MaxDecodes
    /\ \E n_features \in 1..MaxDraws :
         \E arg \in (IF codec_ret.kind = "tensors"
                       THEN {[x |-> codec_ret.x, rows |-> codec_call.df]}
                       ELSE {})
                    \cup { [x |-> Generated(wrapper, n_rows), rows |-> <<>>] :
                             n_rows \in 1..MaxRows } :
            /\ codec_call' = [name |-> "deprocess", x |-> arg.x,
                              n_features |-> n_features,
                              encoded_from |-> arg.rows]
            /\ wrapper' = DeprocessOutcome(wrapper, arg.x, n_features).w
            /\ codec_ret' = DeprocessOutcome(wrapper, arg.x, n_features).ret
    /\ h_decodes' = h_decodes + 1
    /\ UNCHANGED <<train_vars, transform_vars, oadam_vars>>

(* df.drop(names, axis=1): the columns of df that are not in names. *)
Drop(columns, names) == SelectSeq(columns, LAMBDA c : c \notin Range(names))

(* Tables a caller passes to apply_generator: the context columns and       *)
(* possibly a column "id" that the DataWrapper knows nothing of.            *)
HoldoutColumns(w) ==
    { w.variables.context \o extra : extra \in {<<>>, <<"id">>} }

(* Lines 273-286, given what deprocess does on the generator's output.      *)
(* Only the columns of the tables are followed.                             *)
apply_generator(w, columns, out) ==
    LET updated == w.variables.continuous \o w.variables.categorical
        dropped == Drop(columns, updated)
        joined == w.df0.columns \o dropped
        needed == Range(updated) \cup Range(w.variables.context)
        rest == Drop(joined, updated)
    IN IF Range(w.df0.columns) \cap Range(dropped) # {}
         THEN [w |-> w, ret |-> [kind |-> "raised", exc |-> "ValueError"]]
       ELSE IF ~(needed \subseteq Range(joined))
         THEN [w |-> w, ret |-> [kind |-> "raised", exc |-> "KeyError"]]
       ELSE IF out.ret.kind = "raised"
         THEN out
       ELSE IF Range(out.ret.columns) \cap Range(rest) # {}
         THEN [w |-> out.w, ret |-> [kind |-> "raised", exc |-> "ValueError"]]
       ELSE out

(* Lines 250-287. *)
ApplyGenerator ==
    /\ wrapper # NoWrapper
    /\ h_decodes < MaxDecodes
    /\ \E n_features \in 1..MaxDraws, n_rows \in 1..MaxRows :
         \E columns \in HoldoutColumns(wrapper) :
            LET out == DeprocessOutcome(wrapper, Generated(wrapper, n_rows),
                                        n_features)
            IN /\ codec_call' = [name |-> "apply_generator",
                                 columns |-> columns, n_rows |-> n_rows,
                                 n_features |-> n_features]
               /\ wrapper' = apply_generator(wrapper, columns, out).w
               /\ codec_ret' = apply_generator(wrapper, columns, out).ret
    /\ h_decodes' = h_decodes + 1
    /\ UNCHANGED <<train_vars, transform_vars, oadam_vars>>

CodecInit == TrainNotCalled /\ TransformIdle /\ OAdamIdle /\ CodecIdle

CodecNext ==
    \/ DataWrapperInit
    \/ Preprocess
    \/ Deprocess
    \/ ApplyGenerator

SpecCodec == CodecInit /\ [][CodecNext]_vars

(* ---- properties of the pieces ---- *)

(* C11 as stated: for every bounds tensor, every coordinate of the output  *)
(* lies in [lower, upper]; a value below lower becomes lower, a value above *)
(* upper becomes upper.                                                     *)
C11_WithinBounds ==
    \A i \in DOMAIN transformed :
        /\ cont_bounds.lower[i] <= transformed[i]
        /\ transformed[i] <= cont_bounds.upper[i]
        /\ (hidden[i] < cont_bounds.lower[i] =>
                transformed[i] = cont_bounds.lower[i])
        /\ (hidden[i] > cont_bounds.upper[i] =>
                transformed[i] = cont_bounds.upper[i])

(* C11 amended: the statement holds for every variable whose bounds have    *)
(* lower <= upper (and a value inside the interval is returned as it is);   *)
(* for a variable configured with lower > upper every value becomes upper.  *)
C11_WithinOrderedBounds ==
    \A i \in DOMAIN transformed :
        IF cont_bounds.lower[i] <= cont_bounds.upper[i]
          THEN /\ cont_bounds.lower[i] <= transformed[i]
               /\ transformed[i] <= cont_bounds.upper[i]
               /\ (hidden[i] < cont_bounds.lower[i] =>
                       transformed[i] = cont_bounds.lower[i])
               /\ (hidden[i] > cont_bounds.upper[i] =>
                       transformed[i] = cont_bounds.upper[i])
               /\ (cont_bounds.lower[i] <= hidden[i]
                     /\ hidden[i] <= cont_bounds.upper[i] =>
                       transformed[i] = hidden[i])
          ELSE transformed[i] = cont_bounds.upper[i]

(* A value above a configured upper bound has been clipped to it, the lower *)
(* side being unbounded.                                                    *)
C11_Witness ==
    /\ transformed # <<>>
    /\ \E i \in DOMAIN transformed :
         /\ cont_bounds.lower[i] < -MaxVal - MaxMean
         /\ hidden[i] > cont_bounds.upper[i]
         /\ transformed[i] = cont_bounds.upper[i]

C13_InvalidSettingsRejected ==
    ~(/\ s # NoSettings
      /\ s.critic_steps <= 0
      /\ pc = "raised"
      /\ exc = "ZeroDivisionError")

(* C16: for every table conforming to the schema, encode returns x of width *)
(* d_cont + the sum of the fitted vocabulary sizes; the categorical blocks  *)
(* are in schema order and each has one column per vocabulary entry, in     *)
(* vocabulary order, also for a category the table does not contain.        *)
C16_FixedWidth ==
    codec_call.name = "preprocess" /\ h_decodes = 0 =>
        /\ codec_ret.kind = "tensors"
        /\ codec_ret.x.continuous = Len(wrapper.df0.columns)
                                      - Len(wrapper.cat_dims)
        /\ \A r \in DOMAIN codec_call.df :
              codec_ret.x.categorical[r] =
                Flatten([i \in DOMAIN wrapper.cat_dims |->
                    [j \in 1..wrapper.cat_dims[i] |->
                        LET v == wrapper.df0.columns[
                                   codec_ret.x.continuous + i]
                        IN IF wrapper.int_to_words[v][j - 1]
                                = codec_call.df[r][v] THEN 1 ELSE 0]])

(* The first deprocess call on the DataWrapper, given what preprocess       *)
(* returned for a table, with one draw.                                     *)
RoundTrip ==
    /\ codec_call.name = "deprocess"
    /\ codec_call.encoded_from # <<>>
    /\ codec_call.n_features = 1
    /\ h_decodes = 1

(* C14: decode(encode(rows), n_draws = 1) returns, for every row and every  *)
(* categorical variable, the original label, whatever conforming rows are   *)
(* given (a single row, rows that lack a category seen at fit time).        *)
C14_RoundTrip ==
    RoundTrip =>
        /\ codec_ret.kind = "table"
        /\ \A r \in DOMAIN codec_call.encoded_from :
              \A v \in DOMAIN codec_call.encoded_from[r] :
                 /\ v \in DOMAIN codec_ret.data
                 /\ codec_ret.data[v].kind = "labels"
                 /\ codec_ret.data[v].values[r] = codec_call.encoded_from[r][v]

(* The round trip of a table that holds every category of every variable   *)
(* does return the labels: C14 fails on the narrower x of C16 only.         *)
C14_RoundTripOfFullTable ==
    /\ RoundTrip
    /\ \A v \in DOMAIN codec_call.encoded_from[1] :
          Unique(codec_call.encoded_from, v) = DOMAIN wrapper.words_to_int[v]
    => /\ codec_ret.kind = "table"
       /\ \A r \in DOMAIN codec_call.encoded_from :
             \A v \in DOMAIN codec_call.encoded_from[r] :
                codec_ret.data[v].values[r] = codec_call.encoded_from[r][v]

(* C19: whatever calls came before, deprocess with n_features = k leaves    *)
(* self.variables["categorical"] equal to each original categorical         *)
(* variable followed by its k - 1 fillers, leaves the vocabulary of the     *)
(* original variables alone, and returns the columns continuous, that       *)
(* list, context.                                                           *)
OriginalCategorical == wrapper.df0.categorical

C19_ListDependsOnCallOnly ==
    /\ codec_call.name = "deprocess"
    /\ ~(codec_ret.kind = "raised" /\ codec_ret.exc = "RuntimeError")
    => /\ wrapper.variables.categorical =
             NewVariablesCategorical(OriginalCategorical,
                                     codec_call.n_features)
       /\ codec_ret.kind = "table"
       /\ codec_ret.columns =
             wrapper.variables.continuous
               \o NewVariablesCategorical(OriginalCategorical,
                                          codec_call.n_features)
               \o wrapper.variables.context

(* C15: apply_generator, here as the first call on a new DataWrapper,       *)
(* returns a table in which every target column is generated, every         *)
(* context column of the input is present, and every other column of the    *)
(* input is kept.                                                           *)
C15_HoldoutColumnsKept ==
    codec_call.name = "apply_generator" /\ h_decodes = 1 =>
        /\ codec_ret.kind = "table"
        /\ \A i \in DOMAIN wrapper.df0.columns :
              /\ wrapper.df0.columns[i] \in DOMAIN codec_ret.data
              /\ codec_ret.data[wrapper.df0.columns[i]].kind
                     \in {"continuous", "labels"}
        /\ \A i \in DOMAIN codec_call.columns :
              codec_call.columns[i] \in DOMAIN codec_ret.data

(* The parameters that had a dense gradient in a call of step() that       *)
(* returned.                                                                *)
DenseUpdated ==
    IF opt_call.name = "step" /\ opt_exc = None
      THEN { i \in DOMAIN opt_call.grads : opt_call.grads[i].kind = "dense" }
      ELSE {}

(* The term step_size * m / (sqrt(v) + eps) of parameter i from the moments *)
(* held before the call, and from the moments held after it.                *)
TermBefore(i) ==
    AddCDiv(optimizer.defaults,
            StepSize(optimizer.defaults, optimizer.params[i].state.step),
            opt_call.before[i].state.exp_avg,
            opt_call.before[i].state.exp_avg_sq)

TermAfter(i) ==
    AddCDiv(optimizer.defaults,
            StepSize(optimizer.defaults, optimizer.params[i].state.step),
            optimizer.params[i].state.exp_avg,
            optimizer.params[i].state.exp_avg_sq)

MomentsUpdated(i) ==
    /\ optimizer.params[i].state.step = opt_call.before[i].state.step + 1
    /\ optimizer.params[i].state.exp_avg =
          ExpAvg(optimizer.defaults, opt_call.before[i].state,
                 opt_call.grads[i].value)
    /\ optimizer.params[i].state.exp_avg_sq =
          ExpAvgSq(optimizer.defaults, opt_call.before[i].state,
                   opt_call.grads[i].value)

(* C17: one step on a parameter with a dense gradient subtracts             *)
(* step_size * m/(sqrt(v)+eps) of the moments held before the step, updates *)
(* the moments, subtracts 2 * step_size * m/(sqrt(v)+eps) of the updated    *)
(* moments, and adds 1 to the step count.                                   *)
C17_TwoSubtractions ==
    \A i \in DenseUpdated :
        /\ MomentsUpdated(i)
        /\ optimizer.params[i].data =
              Sub(Sub(opt_call.before[i].data, TermBefore(i)),
                  Mul(<<2, 1>>, TermAfter(i)))

(* C17 as the code has it: the first term, of the moments held before the   *)
(* step, is added; the second, of the updated moments, is subtracted twice. *)
C17_AddThenSubtractTwice ==
    \A i \in DenseUpdated :
        /\ MomentsUpdated(i)
        /\ optimizer.params[i].data =
              Sub(Add(opt_call.before[i].data, TermBefore(i)),
                  Mul(<<2, 1>>, TermAfter(i)))

(* A second update of a parameter, with a first moment that is not 0 and a  *)
(* learning rate that is not 0: the first term counts.                      *)
C17_Witness ==
    \E i \in DenseUpdated :
        /\ opt_call.before[i].state.exp_avg # Zero
        /\ TermBefore(i) # Zero
        /\ optimizer.params[i].state.step = 2

(* step() raised on the sparse gradient of the parameter at this index. *)
Offending ==
    CHOOSE i \in DOMAIN opt_call.grads :
        /\ opt_call.grads[i].kind = "sparse"
        /\ \A j \in 1..(i - 1) : opt_call.grads[j].kind # "sparse"

(* C20: when step() raises on a sparse gradient, every parameter, moment    *)
(* and step count is as it was before the call.                             *)
C20_AllOrNothing ==
    opt_call.name = "step" /\ opt_exc = "RuntimeError" =>
        optimizer.params = opt_call.before

(* C20 as the code has it: the offending parameter and those after it in    *)
(* the iteration order are as before the call; a parameter before it is     *)
(* updated if it has a gradient and as before the call if it has none.      *)
C20_UpdatedUpToOffending ==
    opt_call.name = "step" /\ opt_exc = "RuntimeError" =>
        \A i \in DOMAIN optimizer.params :
            IF i < Offending /\ opt_call.grads[i].kind = "dense"
              THEN optimizer.params[i] =
                     OAdamUpdate(optimizer.defaults, opt_call.before[i],
                                 opt_call.grads[i].value)
              ELSE optimizer.params[i] = opt_call.before[i]

(* step() raised on the second parameter after it changed the first. *)
C20_Witness ==
    /\ opt_call.name = "step"
    /\ opt_exc = "RuntimeError"
    /\ Offending = 2
    /\ optimizer.params[1].data # opt_call.before[1].data
    /\ optimizer.params[2] = opt_call.before[2]

(* C18: with critic_steps >= 1 and at least one training batch per epoch    *)
(* (and at least one test batch, so that line 719 divides by a positive     *)
(* count), every epoch has a critic step and train() raises no              *)
(* ZeroDivisionError: WD_train is never divided by n_batches = 0.           *)
C18_EveryEpochHasCriticStep ==
    /\ s.critic_steps >= 1
    /\ s.train_batches >= 1
    /\ s.test_batches >= 1
    => ~(pc = "raised" /\ exc = "ZeroDivisionError")
====
